---- MODULE Spec2Model ----
(***************************************************************************)
(* A model of the sliding-window rate limiter (class RateLimiter) and of   *)
(* the request handlers that call it.                                      *)
(*                                                                         *)
(* Time is in milliseconds, as returned by Date.now().  The limiter's      *)
(* state is the Map `requests` from client key to an array of timestamps.  *)
(***************************************************************************)
EXTENDS Integers, Sequences, FiniteSets, TLC

(***************************************************************************)
(* Bounds of the model.                                                    *)
(***************************************************************************)
\* The largest quota a limiter is constructed with.
MaxQuota == 2
\* The clock advances at most MaxTicks times, by TickMs milliseconds each time.
MaxTicks == 2

\* The client keys (IP addresses) that send requests.
Keys == {"A", "B"}
\* The keys whose calls the history variables record.  isAllowed, reset and
\* getStats use their argument only as a key of the Map, so what holds of one
\* key's history under arbitrary traffic on the others holds of every key's.
Observed == {"A"}
\* The window lengths (ms) a limiter is constructed with.
Windows == {1500, 2000, 5000}
\* The clock's step (ms).
TickMs == 1000
\* The number of requests the server handles.
NumHandlers == 3
\* Admitted calls recorded per key when the configuration is unchecked.
MaxLog == 4

\* The request handlers (one per incoming request), in order of arrival.
Handlers == 1..NumHandlers
\* The number of API requests followed through their route handlers.
NumRequests == 2
\* The API requests, in order of arrival.
Requests == 1..NumRequests
\* generateUnique gives up after this many collisions (1000 in the source).
AttemptLimit == 2
\* The server's limiter, new RateLimiter(30, 60000), scaled to the requests
\* followed here.
\* The clicks counted per short URL before the exploration stops counting.
MaxClicks == 2
ServerMaxRequests == 1
ServerWindowMs == 1500

VARIABLES
  now,            \* Date.now(): the wall clock, in ms
  maxRequests,    \* this.maxRequests
  windowMs,       \* this.windowMs
  requests,       \* this.requests: a Map, here a function on the keys it holds
  last,           \* the call that has just returned: its operation, key, time and return value
  admitted,       \* history: per key, the timestamps admitted and not cleared by reset
  prevRemaining,  \* history: per key, `remaining` of the latest admitted call since reset
  burst,          \* history: per key, the isAllowed calls since the key last had no entry
  lastActivity,   \* history: per key, the instant of its latest isAllowed call, -1 if none
  shadow,         \* history: per key, the Map of a limiter that never saw the key, given
                  \* the calls made on the key since its entry was last removed
  pc,             \* per request handler: the line of code it is at
  loc,            \* per request handler: its local variables
  running,        \* the handler that holds the JavaScript thread, 0 when none does
  serial,         \* history: the Map left by the completed calls run one at a time
  histories,      \* history: per key, the arrays made by line 23 since the entry was last deleted
  db,             \* the URL collection: a function on the shortIds it holds a document for
  rq,             \* per API request: its route, inputs, position and response
  urls,           \* URLStorage: this.urls, a Map from shortId to the URL object
  shortToLong,    \* URLStorage: this.shortToLong, a Map from shortId to the long URL
  returned        \* URLStorage: the method that has just returned, its key and its value

\* The limiter, its clock and its configuration.
limiterVars == <<now, maxRequests, windowMs, requests>>
\* The record of the calls made one after the other.
callVars == <<last, admitted, prevRemaining, burst, lastActivity, shadow>>
\* The request handlers in flight.
handlerVars == <<pc, loc, running, serial, histories>>

\* The URL collection in MongoDB and the API requests in flight.
appVars == <<db, rq>>
\* The in-memory URLStorage.
memoryVars == <<urls, shortToLong, returned>>

vars == <<limiterVars, callVars, handlerVars, appVars, memoryVars>>

(***************************************************************************)
(* JavaScript helpers.                                                     *)
(***************************************************************************)
\* Map.prototype.has
MapHas(m, k) == k \in DOMAIN m

\* Map.prototype.set
MapSet(m, k, v) == [x \in (DOMAIN m) \cup {k} |-> IF x = k THEN v ELSE m[x]]

\* Map.prototype.delete
MapDelete(m, k) == [x \in (DOMAIN m) \ {k} |-> m[x]]

\* Math.max
MathMax(a, b) == IF a >= b THEN a ELSE b

\* Mutant: Math.floor in place of Math.ceil.
MathFloorDiv(x, d) == x \div d

\* Math.ceil(x / d) for integers x and d > 0 (\div rounds toward minus infinity)
MathCeilDiv(x, d) == IF x % d = 0 THEN x \div d ELSE (x \div d) + 1

\* Mutant: the window is closed at its start.
InWindowClosed(time, windowStart) == time >= windowStart

\* The filter's test, `time > windowStart`
InWindow(time, windowStart) == time > windowStart

\* Mutant: the cleanup drops the oldest timestamp alone, if it has expired.
FilterWindowOldestOnly(timestamps, windowStart) ==
  IF timestamps # << >> /\ ~InWindow(timestamps[1], windowStart)
    THEN Tail(timestamps)
    ELSE timestamps

\* timestamps.filter(time => time > windowStart)
FilterWindow(timestamps, windowStart) ==
  SelectSeq(timestamps, LAMBDA time : InWindow(time, windowStart))

(***************************************************************************)
(* RateLimiter                                                             *)
(***************************************************************************)
\* Mutant: a key with nothing in its window is admitted without looking at
\* the quota.
AllowedWhenEmpty(requestCount) == requestCount = 0 \/ requestCount < maxRequests

\* Mutant: the quota test is off by one.
AllowedOffByOne(requestCount) == requestCount <= maxRequests

\* const allowed = requestCount < this.maxRequests
Allowed(requestCount) == requestCount < maxRequests

\* Mutant: a timestamp equal to the newest stored one is moved one
\* millisecond on, to keep the array strictly increasing.
AdmitNudged(timestamps, t) ==
  IF Len(timestamps) > 0 /\ timestamps[Len(timestamps)] >= t
    THEN Append(timestamps, timestamps[Len(timestamps)] + 1)
    ELSE Append(timestamps, t)

\* Mutant: a timestamp already stored as the newest is not stored again.
AdmitCoalesce(timestamps, t) ==
  IF Len(timestamps) > 0 /\ timestamps[Len(timestamps)] = t
    THEN timestamps
    ELSE Append(timestamps, t)

\* Mutant: the new timestamp is put in front of the array.
AdmitFront(timestamps, t) == <<t>> \o timestamps

\* Mutant: the push goes to a copy of the array and is lost.
AdmitLost(timestamps, t) == timestamps

\* timestamps.push(now)
Admit(timestamps, t) == Append(timestamps, t)

\* Mutant: the admitted request is not counted.
FinalCountStale(allowed, requestCount) == requestCount

\* const finalCount = allowed ? requestCount + 1 : requestCount
FinalCount(allowed, requestCount) ==
  IF allowed THEN requestCount + 1 ELSE requestCount

\* const remaining = Math.max(0, this.maxRequests - finalCount)
Remaining(finalCount) == MathMax(0, maxRequests - finalCount)

\* Mutant: resetTime from the newest kept timestamp.
ResetTimeOfNewest(timestamps, t) ==
  IF Len(timestamps) > 0 THEN timestamps[Len(timestamps)] + windowMs ELSE t + windowMs

\* resetTime: the oldest kept timestamp plus the window, or now plus the window
ResetTimeOf(timestamps, t) ==
  IF Len(timestamps) > 0 THEN timestamps[1] + windowMs ELSE t + windowMs

\* retryAfter: allowed ? 0 : Math.ceil((resetTime - now) / 1000)
RetryAfterOf(allowed, resetTime, t) ==
  IF allowed THEN 0 ELSE MathCeilDiv(resetTime - t, 1000)

\* isAllowed(ip) at Date.now() = t on the Map m: the Map it leaves and what it returns
IsAllowedCall(m, ip, t) ==
  LET windowStart  == t - windowMs
      m1           == IF ~MapHas(m, ip) THEN MapSet(m, ip, <<>>) ELSE m
      filtered     == FilterWindow(m1[ip], windowStart)
      m2           == MapSet(m1, ip, filtered)
      requestCount == Len(filtered)
      allowed      == Allowed(requestCount)
      timestamps   == IF allowed THEN Admit(filtered, t) ELSE filtered
      m3           == IF allowed THEN MapSet(m2, ip, timestamps) ELSE m2
      finalCount   == FinalCount(allowed, requestCount)
      remaining    == Remaining(finalCount)
      resetTime    == ResetTimeOf(timestamps, t)
  IN  [requests |-> m3,
       result   |-> [allowed    |-> allowed,
                     remaining  |-> remaining,
                     resetTime  |-> resetTime,
                     retryAfter |-> RetryAfterOf(allowed, resetTime, t)]]

\* Mutant: reset empties the whole Map.
ResetCallClearsAll(m, ip) == << >>

\* Mutant: reset deletes nothing.
ResetCallNoOp(m, ip) == m

\* Mutant: reset only drops the key's expired timestamps.
ResetCallPurgeOnly(m, ip) ==
  IF MapHas(m, ip) THEN MapSet(m, ip, FilterWindow(m[ip], now - windowMs)) ELSE m

\* Mutant: reset empties the key's array and keeps the entry.
ResetCallEmpties(m, ip) == IF MapHas(m, ip) THEN MapSet(m, ip, << >>) ELSE m

\* reset(ip): this.requests.delete(ip)
ResetCall(m, ip) == MapDelete(m, ip)

\* Mutant: getStats stores the filtered history, creating the entry if needed.
GetStatsRequestsWriteBack(m, ip, t) ==
  MapSet(m, ip, IF MapHas(m, ip) THEN FilterWindow(m[ip], t - windowMs) ELSE << >>)

\* getStats(ip) writes nothing to this.requests
GetStatsRequests(m, ip, t) == m

\* Mutant: getStats counts the stored timestamps without filtering them.
GetStatsCallUnfiltered(m, ip, t) ==
  IF ~MapHas(m, ip)
    THEN [requestCount |-> 0,
          remaining    |-> maxRequests,
          resetTime    |-> t + windowMs]
    ELSE [requestCount |-> Len(m[ip]),
          remaining    |-> Remaining(Len(m[ip])),
          resetTime    |-> ResetTimeOf(m[ip], t)]

\* getStats(ip) at Date.now() = t on the Map m: what it returns
GetStatsCall(m, ip, t) ==
  IF ~MapHas(m, ip)
    THEN [requestCount |-> 0,
          remaining    |-> maxRequests,
          resetTime    |-> t + windowMs]
    ELSE LET timestamps == FilterWindow(m[ip], t - windowMs)
         IN  [requestCount |-> Len(timestamps),
              remaining    |-> Remaining(Len(timestamps)),
              resetTime    |-> ResetTimeOf(timestamps, t)]

(***************************************************************************)
(* The state after construction, and one action per call.                  *)
(***************************************************************************)
NoCall == [op |-> "none", ip |-> "none", now |-> 0, result |-> [none |-> TRUE]]

\* What isAllowed has returned, before it returns.
NoResult == [allowed |-> FALSE, remaining |-> -1, resetTime |-> -1, retryAfter |-> -1]

\* A handler's locals before its request arrives and after it is answered.
NoLocals ==
  [kind |-> "none", ip |-> "none", now |-> -1, timestamps |-> << >>,
   requestCount |-> -1, allowed |-> FALSE, result |-> NoResult,
   serialResult |-> NoResult]

\* An API request that has not arrived yet.
NoRequest ==
  [pc |-> "idle", route |-> "none", longUrl |-> "",
   customAlias |-> "none", shortId |-> "none", attempt |-> 0, hits |-> 0,
   allowed |-> FALSE, status |-> 0, storage |-> FALSE]

\* At the start the clock is at 0, no call has been made and no request
\* has arrived.
\* No URLStorage method has returned yet.
NoReturn == [op |-> "none", key |-> "none", value |-> FALSE]

NothingYet ==
  /\ now = 0
  /\ last = NoCall
  /\ admitted = [k \in Observed |-> << >>]
  /\ prevRemaining = [k \in Observed |-> -1]
  /\ burst = [k \in Observed |-> [t1 |-> -1, calls |-> 0, origin |-> "new"]]
  /\ lastActivity = [k \in Observed |-> -1]
  /\ shadow = [k \in Observed |-> << >>]
  /\ pc = [h \in Handlers |-> "idle"]
  /\ loc = [h \in Handlers |-> NoLocals]
  /\ running = 0
  /\ serial = << >>
  /\ histories = [k \in Keys |-> 0]
  /\ rq = [h \in Requests |-> NoRequest]
  /\ urls = << >>
  /\ shortToLong = << >>
  /\ returned = NoReturn

Init ==
  /\ NothingYet
  /\ maxRequests \in 1..MaxQuota
  /\ windowMs \in Windows
  /\ requests = << >>
  /\ db = << >>

\* constructor(maxRequests, windowMs): the two arguments are stored as given
\* and the Map starts empty.
Constructor(mr, w) == [maxRequests |-> mr, windowMs |-> w, requests |-> << >>]

\* Arguments a caller can pass to the constructor: any numbers.
QuotaArgs == -1..MaxQuota
WindowArgs == Windows \cup {0, -1000}

\* The state after new RateLimiter(mr, w) for any arguments.
InitAnyConfig ==
  /\ NothingYet
  /\ \E mr \in QuotaArgs, w \in WindowArgs :
        /\ maxRequests = Constructor(mr, w).maxRequests
        /\ windowMs = Constructor(mr, w).windowMs
        /\ requests = Constructor(mr, w).requests
  /\ db = << >>

\* Date.now() advances (it never goes back here).
TickClock ==
  /\ now + TickMs <= MaxTicks * TickMs
  /\ now' = now + TickMs
  /\ UNCHANGED <<maxRequests, windowMs, requests>>
  /\ UNCHANGED <<appVars, memoryVars>>

\* Time passes between two calls.
Tick ==
  /\ TickClock
  /\ last' = NoCall
  /\ UNCHANGED <<admitted, prevRemaining, burst, lastActivity, shadow>>
  /\ UNCHANGED handlerVars

\* A caller calls isAllowed(ip).
IsAllowed(ip) ==
  LET call == IsAllowedCall(requests, ip, now)
      r    == call.result
  IN  /\ requests' = call.requests
      /\ last' = [op |-> "isAllowed", ip |-> ip, now |-> now, result |-> r]
      /\ IF ip \in Observed
           THEN /\ admitted' = IF r.allowed
                                 THEN [admitted EXCEPT ![ip] = Append(@, now)]
                                 ELSE admitted
                /\ prevRemaining' = IF r.allowed
                                      THEN [prevRemaining EXCEPT ![ip] = r.remaining]
                                      ELSE prevRemaining
                /\ burst' = [burst EXCEPT ![ip] =
                      IF @.calls = 0
                        THEN [@ EXCEPT !.t1 = now, !.calls = 1]
                        ELSE [@ EXCEPT !.calls = IF @ <= maxRequests THEN @ + 1 ELSE @]]
                /\ lastActivity' = [lastActivity EXCEPT ![ip] = now]
                /\ shadow' = [shadow EXCEPT ![ip] = IsAllowedCall(@, ip, now).requests]
           ELSE UNCHANGED <<admitted, prevRemaining, burst, lastActivity, shadow>>
      /\ UNCHANGED <<now, maxRequests, windowMs>>
      /\ UNCHANGED handlerVars
      /\ UNCHANGED <<appVars, memoryVars>>

\* A caller calls reset(ip).
Reset(ip) ==
  LET blocked == /\ MapHas(requests, ip)
                 /\ ~Allowed(Len(FilterWindow(requests[ip], now - windowMs)))
  IN  /\ requests' = ResetCall(requests, ip)
      /\ last' = [op |-> "reset", ip |-> ip, now |-> now, result |-> [none |-> TRUE]]
      /\ IF ip \in Observed
           THEN /\ admitted' = [admitted EXCEPT ![ip] = << >>]
                /\ prevRemaining' = [prevRemaining EXCEPT ![ip] = -1]
                /\ burst' = [burst EXCEPT ![ip] =
                      [t1 |-> -1, calls |-> 0,
                       origin |-> IF blocked THEN "resetBlocked" ELSE "reset"]]
                /\ lastActivity' = [lastActivity EXCEPT ![ip] = -1]
                /\ shadow' = [shadow EXCEPT ![ip] = << >>]
           ELSE UNCHANGED <<admitted, prevRemaining, burst, lastActivity, shadow>>
      /\ UNCHANGED <<now, maxRequests, windowMs>>
      /\ UNCHANGED handlerVars
      /\ UNCHANGED <<appVars, memoryVars>>

\* A caller calls getStats(ip).
GetStats(ip) ==
  /\ requests' = GetStatsRequests(requests, ip, now)
  /\ last' = [op |-> "getStats", ip |-> ip, now |-> now,
              result |-> GetStatsCall(requests, ip, now)]
  /\ UNCHANGED <<now, maxRequests, windowMs, admitted, prevRemaining, burst>>
  /\ UNCHANGED <<lastActivity, shadow>>
  /\ UNCHANGED handlerVars
  /\ UNCHANGED <<appVars, memoryVars>>

Next ==
  \/ Tick
  \/ \E ip \in Keys : IsAllowed(ip)
  \/ \E ip \in Keys : Reset(ip)
  \/ \E ip \in Keys : GetStats(ip)

Spec == Init /\ [][Next]_vars

\* With a window that is not positive every call is admitted; the log of
\* admitted calls is followed up to MaxLog entries.
LogRoom == \A k \in Observed : Len(admitted[k]) <= MaxLog

\* The limiter constructed with any arguments, then called as in Spec.
SpecAnyConfig == InitAnyConfig /\ [][Next /\ LogRoom']_vars

\* Date.now() is the wall clock: between two calls it may be set to any
\* instant, earlier ones included.
ClockJump ==
  /\ \E n \in 0..MaxTicks : now' = n * TickMs
  /\ now' # now
  /\ last' = NoCall
  /\ UNCHANGED <<maxRequests, windowMs, requests>>
  /\ UNCHANGED <<admitted, prevRemaining, burst, lastActivity, shadow>>
  /\ UNCHANGED <<handlerVars, appVars, memoryVars>>

\* The state after new RateLimiter(mr, w) with a quota that is not negative
\* and any window.
InitAnyClock ==
  /\ NothingYet
  /\ \E mr \in 0..MaxQuota, w \in WindowArgs :
        /\ maxRequests = Constructor(mr, w).maxRequests
        /\ windowMs = Constructor(mr, w).windowMs
        /\ requests = Constructor(mr, w).requests
  /\ db = << >>

\* A caller calls isAllowed(ip); no history of the call is kept beyond its
\* return value.
IsAllowedAnyClock(ip) ==
  /\ requests' = IsAllowedCall(requests, ip, now).requests
  /\ last' = [op |-> "isAllowed", ip |-> ip, now |-> now,
              result |-> IsAllowedCall(requests, ip, now).result]
  /\ UNCHANGED <<now, maxRequests, windowMs>>
  /\ UNCHANGED <<admitted, prevRemaining, burst, lastActivity, shadow>>
  /\ UNCHANGED <<handlerVars, appVars, memoryVars>>

\* A caller calls reset(ip).
ResetAnyClock(ip) ==
  /\ requests' = ResetCall(requests, ip)
  /\ last' = [op |-> "reset", ip |-> ip, now |-> now, result |-> [none |-> TRUE]]
  /\ UNCHANGED <<now, maxRequests, windowMs>>
  /\ UNCHANGED <<admitted, prevRemaining, burst, lastActivity, shadow>>
  /\ UNCHANGED <<handlerVars, appVars, memoryVars>>

NextAnyClock ==
  \/ ClockJump
  \/ \E ip \in Keys : IsAllowedAnyClock(ip)
  \/ \E ip \in Keys : ResetAnyClock(ip)
  \/ \E ip \in Keys : GetStats(ip)

\* The limiter called as in Spec under a clock that moves freely.
SpecAnyClock == InitAnyClock /\ [][NextAnyClock]_vars

\* The calls come from the limiter's callers, who may stop calling; nothing in
\* the class runs by itself (it sets no timer).  Time alone is sure to pass.
SpecLive == Init /\ [][Next]_vars /\ WF_vars(Tick)

(***************************************************************************)
(* The server: request handlers on the JavaScript event loop.              *)
(*                                                                         *)
(* Each request runs rateLimitMiddleware, which calls isAllowed; a handler *)
(* is at one line of that code at a time.  A callback keeps the thread     *)
(* until it returns or awaits: isAllowed, reset and the middleware hold no *)
(* await, so a handler gives the thread up only once the middleware has    *)
(* answered 429 or passed the request on to its (async) route handler.     *)
(***************************************************************************)
\* Mutant: the thread can be taken from a handler after any line.
YieldsAnywhere(p) == TRUE

\* The places at which a handler is not on the thread: before its request
\* arrives, while its route handler awaits storage, and once it has answered.
Yields(p) == p \in {"idle", "route", "rejected", "done"}

\* Handler h may take its next step.
Holds(h) == running \in {0, h}

\* Handler h moves to line p.
Goto(h, p) ==
  /\ pc' = [pc EXCEPT ![h] = p]
  /\ running' = IF Yields(p) THEN 0 ELSE h

\* A request from client ip arrives and its middleware starts; or some
\* callback starts a call of reset(ip).
Arrive(h, kind, ip) ==
  /\ pc[h] = "idle"
  /\ running = 0
  /\ h > 1 => pc[h - 1] # "idle"
  /\ loc' = [loc EXCEPT ![h] = [NoLocals EXCEPT !.kind = kind, !.ip = ip]]
  /\ Goto(h, IF kind = "request" THEN "L18" ELSE "L61")
  /\ UNCHANGED <<limiterVars, callVars, serial, histories>>
  /\ UNCHANGED <<appVars, memoryVars>>

\* const now = Date.now(); const windowStart = now - this.windowMs
L18(h) ==
  /\ pc[h] = "L18" /\ Holds(h)
  /\ loc' = [loc EXCEPT ![h].now = now]
  /\ Goto(h, "L22")
  /\ UNCHANGED <<limiterVars, callVars, serial, histories>>
  /\ UNCHANGED <<appVars, memoryVars>>

\* if (!this.requests.has(ip))
L22(h) ==
  /\ pc[h] = "L22" /\ Holds(h)
  /\ Goto(h, IF ~MapHas(requests, loc[h].ip) THEN "L23" ELSE "L26")
  /\ UNCHANGED <<limiterVars, callVars, loc, serial, histories>>
  /\ UNCHANGED <<appVars, memoryVars>>

\* this.requests.set(ip, [])
L23(h) ==
  /\ pc[h] = "L23" /\ Holds(h)
  /\ requests' = MapSet(requests, loc[h].ip, << >>)
  /\ histories' = [histories EXCEPT ![loc[h].ip] = @ + 1]
  /\ Goto(h, "L26")
  /\ UNCHANGED <<now, maxRequests, windowMs, callVars, loc, serial>>
  /\ UNCHANGED <<appVars, memoryVars>>

\* let timestamps = this.requests.get(ip); with no entry this is undefined,
\* line 29 throws a TypeError and the request ends in the error handler.
L26(h) ==
  /\ pc[h] = "L26" /\ Holds(h)
  /\ IF MapHas(requests, loc[h].ip)
       THEN /\ loc' = [loc EXCEPT ![h].timestamps = requests[loc[h].ip]]
            /\ Goto(h, "L29")
       ELSE /\ loc' = [loc EXCEPT ![h] = NoLocals]
            /\ Goto(h, "done")
  /\ UNCHANGED <<limiterVars, callVars, serial, histories>>
  /\ UNCHANGED <<appVars, memoryVars>>

\* timestamps = timestamps.filter(...); this.requests.set(ip, timestamps)
L29(h) ==
  /\ pc[h] = "L29" /\ Holds(h)
  /\ LET filtered == FilterWindow(loc[h].timestamps, loc[h].now - windowMs)
     IN  /\ loc' = [loc EXCEPT ![h].timestamps = filtered]
         /\ requests' = MapSet(requests, loc[h].ip, filtered)
  /\ Goto(h, "L32")
  /\ UNCHANGED <<now, maxRequests, windowMs, callVars, serial, histories>>
  /\ UNCHANGED <<appVars, memoryVars>>

\* const requestCount = timestamps.length; const allowed = ...
L32(h) ==
  /\ pc[h] = "L32" /\ Holds(h)
  /\ loc' = [loc EXCEPT ![h].requestCount = Len(loc[h].timestamps),
                        ![h].allowed = Allowed(Len(loc[h].timestamps))]
  /\ Goto(h, "L35")
  /\ UNCHANGED <<limiterVars, callVars, serial, histories>>
  /\ UNCHANGED <<appVars, memoryVars>>

\* if (allowed) { timestamps.push(now); this.requests.set(ip, timestamps) }
L35(h) ==
  /\ pc[h] = "L35" /\ Holds(h)
  /\ IF loc[h].allowed
       THEN LET pushed == Admit(loc[h].timestamps, loc[h].now)
            IN  /\ loc' = [loc EXCEPT ![h].timestamps = pushed]
                /\ requests' = MapSet(requests, loc[h].ip, pushed)
       ELSE UNCHANGED <<loc, requests>>
  /\ Goto(h, "L41")
  /\ UNCHANGED <<now, maxRequests, windowMs, callVars, serial, histories>>
  /\ UNCHANGED <<appVars, memoryVars>>

\* isAllowed computes its result and returns; the middleware answers 429 or
\* calls next(), and the route handler runs up to its first await.
L41(h) ==
  /\ pc[h] = "L41" /\ Holds(h)
  /\ LET l          == loc[h]
         finalCount == FinalCount(l.allowed, l.requestCount)
         resetTime  == ResetTimeOf(l.timestamps, l.now)
         result     == [allowed    |-> l.allowed,
                        remaining  |-> Remaining(finalCount),
                        resetTime  |-> resetTime,
                        retryAfter |-> RetryAfterOf(l.allowed, resetTime, l.now)]
         alone      == IsAllowedCall(serial, l.ip, l.now)
     IN  /\ loc' = [loc EXCEPT ![h].result = result,
                               ![h].serialResult = alone.result]
         /\ serial' = alone.requests
         /\ admitted' = IF l.allowed /\ l.ip \in Observed
                          THEN [admitted EXCEPT ![l.ip] = Append(@, l.now)]
                          ELSE admitted
         /\ Goto(h, IF l.allowed THEN "route" ELSE "rejected")
  /\ UNCHANGED <<limiterVars, last, prevRemaining, burst, lastActivity, shadow, histories>>
  /\ UNCHANGED <<appVars, memoryVars>>

\* reset(ip): this.requests.delete(ip)
L61(h) ==
  /\ pc[h] = "L61" /\ Holds(h)
  /\ requests' = ResetCall(requests, loc[h].ip)
  /\ serial' = ResetCall(serial, loc[h].ip)
  /\ histories' = [histories EXCEPT ![loc[h].ip] = 0]
  /\ admitted' = IF loc[h].ip \in Observed
                   THEN [admitted EXCEPT ![loc[h].ip] = << >>]
                   ELSE admitted
  /\ loc' = [loc EXCEPT ![h] = NoLocals]
  /\ Goto(h, "done")
  /\ UNCHANGED <<now, maxRequests, windowMs, last, prevRemaining, burst, lastActivity, shadow>>
  /\ UNCHANGED <<appVars, memoryVars>>

\* The route handler's awaits complete and it answers; or the 429 is sent.
Finish(h) ==
  /\ pc[h] \in {"route", "rejected"}
  /\ running = 0
  /\ loc' = [loc EXCEPT ![h] = NoLocals]
  /\ Goto(h, "done")
  /\ UNCHANGED <<limiterVars, callVars, serial, histories>>
  /\ UNCHANGED <<appVars, memoryVars>>

\* Time passes, also while a handler is running.
TickServer ==
  /\ TickClock
  /\ UNCHANGED <<callVars, handlerVars>>

NextServer ==
  \/ TickServer
  \/ \E h \in Handlers, ip \in Keys : Arrive(h, "request", ip)
  \/ \E h \in Handlers, ip \in Keys : Arrive(h, "reset", ip)
  \/ \E h \in Handlers : L18(h)
  \/ \E h \in Handlers : L22(h)
  \/ \E h \in Handlers : L23(h)
  \/ \E h \in Handlers : L26(h)
  \/ \E h \in Handlers : L29(h)
  \/ \E h \in Handlers : L32(h)
  \/ \E h \in Handlers : L35(h)
  \/ \E h \in Handlers : L41(h)
  \/ \E h \in Handlers : L61(h)
  \/ \E h \in Handlers : Finish(h)

SpecServer == Init /\ [][NextServer]_vars

\* The state after new RateLimiter(mr, w) with a positive window and any
\* quota.
InitAnyQuota ==
  /\ NothingYet
  /\ \E mr \in QuotaArgs, w \in Windows :
        /\ maxRequests = Constructor(mr, w).maxRequests
        /\ windowMs = Constructor(mr, w).windowMs
        /\ requests = Constructor(mr, w).requests
  /\ db = << >>

\* Calls and clock ticks; a tick leaves `last` alone, so that `last` is the
\* latest call made, however long ago.
NextAnyQuota ==
  \/ TickServer
  \/ \E ip \in Keys : IsAllowedAnyClock(ip)
  \/ \E ip \in Keys : ResetAnyClock(ip)
  \/ \E ip \in Keys : GetStats(ip)

\* The limiter with a positive window and any quota, under a clock that
\* does not go back.
SpecAnyQuota == InitAnyQuota /\ [][NextAnyQuota]_vars

(***************************************************************************)
(* The HTTP API: the MongoDB storage, the ID generator, the rate limiting  *)
(* middleware and the route handlers.  A handler runs without interruption *)
(* up to its next await; each awaited storage call is one step.            *)
(***************************************************************************)
\* req.body.longUrl as clients send it: missing, not a URL, or a URL.
UrlInputs == {"", "nourl", "http://a", "http://b"}

\* req.body.customAlias: absent, too short, with a forbidden character, or
\* well formed.
AliasInputs == {"none", "ab", "a!c", "abc"}

\* The 7-character IDs the generator produces here.
GenIds == <<"g1", "g2", "g3">>

\* req.params.shortId as clients send it.
PathIds == {"abc", "g1", "a.b"}

\* isValidUrl(string): new URL(string) does not throw.
IsValidUrl(string) == string \in {"http://a", "http://b"}

\* customAlias.length
AliasLength(customAlias) == IF customAlias = "ab" THEN 2 ELSE 3

\* /^[a-zA-Z0-9_-]+$/.test(customAlias)
AliasCharsOk(customAlias) == customAlias # "a!c"

\* shortId.startsWith('api') || shortId.includes('.')
ExcludedId(shortId) == shortId = "a.b"

\* generate(longUrl, attempt): a hash of `${longUrl}:${attempt}` cut to 7
\* characters; different inputs may give the same ID.
Generate(longUrl, attempt) ==
  GenIds[(((IF longUrl = "http://a" THEN 0 ELSE 1) + attempt) % Len(GenIds)) + 1]

\* exists(shortId): findOne({ shortId }) !== null
StorageExists(d, shortId) == shortId \in DOMAIN d

\* Mutant: save replaces the document of a shortId already stored.
StorageSaveUpsert(d, shortId, longUrl, customAlias) ==
  [db |-> MapSet(d, shortId, [longUrl |-> longUrl,
                              customAlias |-> customAlias # "none",
                              clicks |-> 0]),
   saved |-> TRUE]

\* save(shortId, longUrl, customAlias): insert a document; the unique index
\* on shortId refuses a second document with the same shortId (error 11000,
\* rethrown as 'Short ID already exists').
StorageSave(d, shortId, longUrl, customAlias) ==
  IF shortId \in DOMAIN d
    THEN [db |-> d, saved |-> FALSE]
    ELSE [db |-> MapSet(d, shortId, [longUrl |-> longUrl,
                                     customAlias |-> customAlias # "none",
                                     clicks |-> 0]),
          saved |-> TRUE]

\* getLongUrl(shortId): doc ? doc.longUrl : null
StorageGetLongUrl(d, shortId) == IF shortId \in DOMAIN d THEN d[shortId].longUrl ELSE "null"

\* Mutant: the new count is computed from the document as it was saved, not
\* as it is now.
StorageIncrementClicksStale(d, shortId) ==
  IF shortId \in DOMAIN d THEN [d EXCEPT ![shortId].clicks = 1] ELSE d

\* incrementClicks(shortId): findOneAndUpdate({ shortId }, { $inc: { clicks: 1 } })
StorageIncrementClicks(d, shortId) ==
  IF shortId \in DOMAIN d THEN [d EXCEPT ![shortId].clicks = @ + 1] ELSE d

\* delete(shortId): deleteOne({ shortId })
StorageDelete(d, shortId) == MapDelete(d, shortId)

\* The handler answers with a status; req and its local variables are gone.
Respond(r, status) ==
  [NoRequest EXCEPT !.pc = "done", !.status = status,
                    !.allowed = r.allowed, !.storage = r.storage]

\* The handler stops at an awaited storage call.
Await(r, p) == [r EXCEPT !.pc = p]

\* The handler's storage call is carried out.
Touch(r) == [r EXCEPT !.storage = TRUE]

\* Mutant: the middleware goes on to the route handler whatever the limiter
\* answered.
CallsNextAlways(limitCheck) == TRUE

\* rateLimitMiddleware: if (!limitCheck.allowed) return res.status(429)...;
\* next()
CallsNext(limitCheck) == limitCheck.allowed

\* The route handler from its first line to its first await or its answer.
RouteEntry(r) ==
  CASE r.route = "shorten" ->
         IF r.longUrl = "" THEN Respond(r, 400)
         ELSE IF ~IsValidUrl(r.longUrl) THEN Respond(r, 400)
         ELSE IF r.customAlias # "none"
           THEN IF AliasLength(r.customAlias) < 3 \/ AliasLength(r.customAlias) > 20
                  THEN Respond(r, 400)
                ELSE IF ~AliasCharsOk(r.customAlias) THEN Respond(r, 400)
                ELSE Await(r, "exists")
           ELSE Await([r EXCEPT !.attempt = 0,
                                !.shortId = Generate(r.longUrl, 0)], "generateUnique")
    [] r.route = "stats"    -> Await(r, "get")
    [] r.route = "all"      -> Await(r, "getAll")
    [] r.route = "delete"   -> Await(r, "deleteExists")
    [] r.route = "redirect" -> IF ExcludedId(r.shortId) THEN Respond(r, 404)
                               ELSE Await(r, "getLongUrl")
    [] r.route = "health"   -> Respond(r, 200)

\* A request arrives: rateLimitMiddleware runs (clientIp is the normalised
\* address), answers 429 or calls next(), and the route handler runs to its
\* first await.
RateLimitMiddleware(h, route, ip, longUrl, customAlias, shortId) ==
  /\ rq[h].pc = "idle"
  /\ h > 1 => rq[h - 1].pc # "idle"
  /\ LET call       == IsAllowedCall(requests, ip, now)
         limitCheck == call.result
         r == [NoRequest EXCEPT !.route = route, !.longUrl = longUrl,
                                !.customAlias = customAlias, !.shortId = shortId,
                                !.allowed = limitCheck.allowed]
     IN  /\ requests' = call.requests
         /\ rq' = [rq EXCEPT ![h] = IF CallsNext(limitCheck)
                                      THEN RouteEntry(r)
                                      ELSE Respond(r, 429)]
  /\ UNCHANGED <<now, maxRequests, windowMs, db, callVars, handlerVars, memoryVars>>

\* POST /api/shorten: if (await urlStorage.exists(customAlias)) return 409;
\* otherwise shortId = customAlias and save is awaited.
ShortenExists(h) ==
  /\ rq[h].pc = "exists"
  /\ LET r == Touch(rq[h])
     IN  rq' = [rq EXCEPT ![h] =
                  IF StorageExists(db, r.customAlias)
                    THEN Respond(r, 409)
                    ELSE Await([r EXCEPT !.shortId = r.customAlias], "save")]
  /\ UNCHANGED <<limiterVars, callVars, handlerVars, db, memoryVars>>

\* generateUnique: while (await this.storage.exists(shortId) && attempt < 1000)
\* { attempt++; shortId = this.generate(longUrl, attempt) }; it throws when
\* attempt has reached the limit, which the route answers with 500.  The
\* condition evaluates exists first, so the candidate of the last attempt is
\* looked up as well; hits counts the lookups that answered true.
\* Mutant: the first candidate is returned without asking the storage.
GenerateUniqueUnchecked(h) ==
  /\ rq[h].pc = "generateUnique"
  /\ rq' = [rq EXCEPT ![h] = Await(Touch(rq[h]), "save")]
  /\ UNCHANGED <<limiterVars, callVars, handlerVars, db, memoryVars>>

GenerateUnique(h) ==
  /\ rq[h].pc = "generateUnique"
  /\ LET found == StorageExists(db, rq[h].shortId)
         r == [Touch(rq[h]) EXCEPT !.hits = @ + (IF found THEN 1 ELSE 0)]
     IN  rq' = [rq EXCEPT ![h] =
                  IF found /\ r.attempt < AttemptLimit
                    THEN [r EXCEPT !.attempt = @ + 1,
                                   !.shortId = Generate(r.longUrl, r.attempt + 1)]
                  ELSE IF r.attempt >= AttemptLimit
                    THEN [Respond(r, 500) EXCEPT !.hits = r.hits]
                    ELSE Await(r, "save")]
  /\ UNCHANGED <<limiterVars, callVars, handlerVars, db, memoryVars>>

\* POST /api/shorten: await urlStorage.save(shortId, longUrl, customAlias),
\* then 201; an error thrown by save is answered with 500.
ShortenSave(h) ==
  /\ rq[h].pc = "save"
  /\ LET r     == Touch(rq[h])
         saved == StorageSave(db, r.shortId, r.longUrl, r.customAlias)
     IN  /\ db' = saved.db
         /\ rq' = [rq EXCEPT ![h] = Respond(r, IF saved.saved THEN 201 ELSE 500)]
  /\ UNCHANGED <<limiterVars, callVars, handlerVars, memoryVars>>

\* GET /api/stats/:shortId: await urlStorage.get(shortId); 404 if null.
StatsGet(h) ==
  /\ rq[h].pc = "get"
  /\ LET r == Touch(rq[h])
     IN  rq' = [rq EXCEPT ![h] =
                  Respond(r, IF StorageExists(db, r.shortId) THEN 200 ELSE 404)]
  /\ UNCHANGED <<limiterVars, callVars, handlerVars, db, memoryVars>>

\* GET /api/all: await urlStorage.getAll()
AllGetAll(h) ==
  /\ rq[h].pc = "getAll"
  /\ rq' = [rq EXCEPT ![h] = Respond(Touch(rq[h]), 200)]
  /\ UNCHANGED <<limiterVars, callVars, handlerVars, db, memoryVars>>

\* DELETE /api/delete/:shortId: if (!(await urlStorage.exists(shortId))) 404
DeleteExists(h) ==
  /\ rq[h].pc = "deleteExists"
  /\ LET r == Touch(rq[h])
     IN  rq' = [rq EXCEPT ![h] =
                  IF StorageExists(db, r.shortId)
                    THEN Await(r, "delete")
                    ELSE Respond(r, 404)]
  /\ UNCHANGED <<limiterVars, callVars, handlerVars, db, memoryVars>>

\* DELETE /api/delete/:shortId: await urlStorage.delete(shortId)
DeleteDelete(h) ==
  /\ rq[h].pc = "delete"
  /\ db' = StorageDelete(db, rq[h].shortId)
  /\ rq' = [rq EXCEPT ![h] = Respond(Touch(rq[h]), 200)]
  /\ UNCHANGED <<limiterVars, callVars, handlerVars, memoryVars>>

\* GET /:shortId: const longUrl = await urlStorage.getLongUrl(shortId);
\* 404 if (!longUrl)
RedirectGetLongUrl(h) ==
  /\ rq[h].pc = "getLongUrl"
  /\ LET r       == Touch(rq[h])
         longUrl == StorageGetLongUrl(db, r.shortId)
     IN  rq' = [rq EXCEPT ![h] =
                  IF longUrl \in {"null", ""}
                    THEN Respond(r, 404)
                    ELSE Await(r, "incrementClicks")]
  /\ UNCHANGED <<limiterVars, callVars, handlerVars, db, memoryVars>>

\* GET /:shortId: await urlStorage.incrementClicks(shortId); redirect 301
RedirectIncrementClicks(h) ==
  /\ rq[h].pc = "incrementClicks"
  /\ db' = StorageIncrementClicks(db, rq[h].shortId)
  /\ rq' = [rq EXCEPT ![h] = Respond(Touch(rq[h]), 301)]
  /\ UNCHANGED <<limiterVars, callVars, handlerVars, memoryVars>>

\* Date.now() advances while requests are handled; the clock is followed
\* until the first window has passed, which takes every stored timestamp
\* out of the window.
TickApp ==
  /\ now < windowMs
  /\ now' = now + windowMs
  /\ UNCHANGED <<maxRequests, windowMs, requests, callVars, handlerVars, appVars, memoryVars>>

NextApp ==
  \/ TickApp
  \/ \E h \in Requests, ip \in Keys, longUrl \in UrlInputs, customAlias \in AliasInputs :
       RateLimitMiddleware(h, "shorten", ip, longUrl, customAlias, "none")
  \/ \E h \in Requests, ip \in Keys, shortId \in PathIds :
       RateLimitMiddleware(h, "stats", ip, "", "none", shortId)
  \/ \E h \in Requests, ip \in Keys :
       RateLimitMiddleware(h, "all", ip, "", "none", "none")
  \/ \E h \in Requests, ip \in Keys, shortId \in PathIds :
       RateLimitMiddleware(h, "delete", ip, "", "none", shortId)
  \/ \E h \in Requests, ip \in Keys, shortId \in PathIds :
       RateLimitMiddleware(h, "redirect", ip, "", "none", shortId)
  \/ \E h \in Requests, ip \in Keys :
       RateLimitMiddleware(h, "health", ip, "", "none", "none")
  \/ \E h \in Requests : ShortenExists(h)
  \/ \E h \in Requests : GenerateUnique(h)
  \/ \E h \in Requests : ShortenSave(h)
  \/ \E h \in Requests : StatsGet(h)
  \/ \E h \in Requests : AllGetAll(h)
  \/ \E h \in Requests : DeleteExists(h)
  \/ \E h \in Requests : DeleteDelete(h)
  \/ \E h \in Requests : RedirectGetLongUrl(h)
  \/ \E h \in Requests : RedirectIncrementClicks(h)

\* The server after start: const rateLimiter = new RateLimiter(30, 60000);
\* const urlStorage = new MongoDBStorage(), the collection empty.
InitApp ==
  /\ NothingYet
  /\ maxRequests = Constructor(ServerMaxRequests, ServerWindowMs).maxRequests
  /\ windowMs = Constructor(ServerMaxRequests, ServerWindowMs).windowMs
  /\ requests = Constructor(ServerMaxRequests, ServerWindowMs).requests
  /\ db = << >>

\* The server: one limiter shared by all routes, requests handled
\* concurrently, interleaved at their awaits.
SpecApp == InitApp /\ [][NextApp]_vars

\* The server started on a collection that already holds a short URL, saved
\* by an earlier POST /api/shorten with a custom alias.
InitStored ==
  /\ NothingYet
  /\ maxRequests = Constructor(ServerMaxRequests, ServerWindowMs).maxRequests
  /\ windowMs = Constructor(ServerMaxRequests, ServerWindowMs).windowMs
  /\ requests = Constructor(ServerMaxRequests, ServerWindowMs).requests
  /\ db = StorageSave(<< >>, "abc", "http://a", "abc").db

\* The server of SpecApp, on that collection.
SpecStored == InitStored /\ [][NextApp]_vars

\* The server started on a collection in which earlier requests for the same
\* long URL have taken every ID generateUnique will try for it.
InitCrowded ==
  /\ NothingYet
  /\ maxRequests = Constructor(ServerMaxRequests, ServerWindowMs).maxRequests
  /\ windowMs = Constructor(ServerMaxRequests, ServerWindowMs).windowMs
  /\ requests = Constructor(ServerMaxRequests, ServerWindowMs).requests
  /\ LET g(n) == Generate("http://a", n)
         one == StorageSave(<< >>, g(0), "http://a", g(0)).db
         two == StorageSave(one, g(1), "http://a", g(1)).db
     IN  db = StorageSave(two, g(2), "http://a", g(2)).db

SpecCrowded == InitCrowded /\ [][NextApp]_vars

(***************************************************************************)
(* The in-memory URLStorage: two Maps kept by one object, every method     *)
(* synchronous.                                                            *)
(***************************************************************************)

\* shortId and customAlias arguments of save, "none" for a customAlias left
\* out (null), and the keys the other methods are called with.
MemoryIds == {"g1", "g2"}
MemoryAliases == {"none", "", "abc"}
MemoryKeys == {"g1", "g2", "abc"}
MemoryUrls == {"", "http://a", "http://b"}

\* null, and a value that is not null.
Null == << >>
Some(v) == <<v>>

\* a || b on strings: null and the empty string are falsy.
OrElse(a, b) == IF a \in {"none", ""} THEN b ELSE a

\* get(shortId): this.urls.get(shortId) || null; an object is truthy.
URLStorageGet(shortId) ==
  IF MapHas(urls, shortId) THEN Some(urls[shortId]) ELSE Null

\* getLongUrl(shortId): this.shortToLong.get(shortId) || null.
URLStorageGetLongUrl(shortId) ==
  IF MapHas(shortToLong, shortId) /\ shortToLong[shortId] # ""
    THEN Some(shortToLong[shortId])
    ELSE Null

\* exists(shortId): this.urls.has(shortId).
URLStorageExists(shortId) == MapHas(urls, shortId)

\* save(shortId, longUrl, customAlias = null): both Maps are set under the
\* alias, or under shortId when there is none; an entry already there is
\* replaced.
Save(shortId, longUrl, customAlias) ==
  /\ LET alias == OrElse(customAlias, shortId)
         urlObj == [shortId |-> alias, longUrl |-> longUrl,
                    createdAt |-> now, clicks |-> 0]
     IN  /\ urls' = MapSet(urls, alias, urlObj)
         /\ shortToLong' = MapSet(shortToLong, alias, longUrl)
         /\ returned' = [op |-> "save", key |-> alias, value |-> urlObj]
  /\ UNCHANGED <<limiterVars, callVars, handlerVars, appVars>>

Get(shortId) ==
  /\ returned' = [op |-> "get", key |-> shortId, value |-> URLStorageGet(shortId)]
  /\ UNCHANGED <<limiterVars, callVars, handlerVars, appVars, urls, shortToLong>>

GetLongUrl(shortId) ==
  /\ returned' = [op |-> "getLongUrl", key |-> shortId,
                  value |-> URLStorageGetLongUrl(shortId)]
  /\ UNCHANGED <<limiterVars, callVars, handlerVars, appVars, urls, shortToLong>>

\* incrementClicks(shortId): const urlObj = this.urls.get(shortId);
\* if (urlObj) urlObj.clicks++.  It returns nothing.
IncrementClicks(shortId) ==
  /\ MapHas(urls, shortId) => urls[shortId].clicks < MaxClicks
  /\ urls' = IF MapHas(urls, shortId)
               THEN [urls EXCEPT ![shortId].clicks = @ + 1]
               ELSE urls
  /\ returned' = [op |-> "incrementClicks", key |-> shortId, value |-> Null]
  /\ UNCHANGED <<limiterVars, callVars, handlerVars, appVars, shortToLong>>

Exists(shortId) ==
  /\ returned' = [op |-> "exists", key |-> shortId,
                  value |-> URLStorageExists(shortId)]
  /\ UNCHANGED <<limiterVars, callVars, handlerVars, appVars, urls, shortToLong>>

\* Mutant: only this.urls forgets the key.
DeleteUrlsOnly(shortId) ==
  /\ urls' = MapDelete(urls, shortId)
  /\ returned' = [op |-> "delete", key |-> shortId, value |-> MapHas(urls, shortId)]
  /\ UNCHANGED <<limiterVars, callVars, handlerVars, appVars, shortToLong>>

\* delete(shortId): this.shortToLong.delete(shortId);
\* return this.urls.delete(shortId).
Delete(shortId) ==
  /\ shortToLong' = MapDelete(shortToLong, shortId)
  /\ urls' = MapDelete(urls, shortId)
  /\ returned' = [op |-> "delete", key |-> shortId, value |-> MapHas(urls, shortId)]
  /\ UNCHANGED <<limiterVars, callVars, handlerVars, appVars>>

\* getAll(): Array.from(this.urls.values()); the Map's insertion order is
\* not kept here, the array is given as the set of its elements.
GetAll ==
  /\ returned' = [op |-> "getAll", key |-> "none",
                  value |-> {urls[k] : k \in DOMAIN urls}]
  /\ UNCHANGED <<limiterVars, callVars, handlerVars, appVars, urls, shortToLong>>

NextMemory ==
  \/ \E shortId \in MemoryIds, longUrl \in MemoryUrls, customAlias \in MemoryAliases :
       Save(shortId, longUrl, customAlias)
  \/ \E shortId \in MemoryKeys : Get(shortId)
  \/ \E shortId \in MemoryKeys : GetLongUrl(shortId)
  \/ \E shortId \in MemoryKeys : IncrementClicks(shortId)
  \/ \E shortId \in MemoryKeys : Exists(shortId)
  \/ \E shortId \in MemoryKeys : Delete(shortId)
  \/ GetAll

\* A URLStorage just constructed, and its methods called in any order.
SpecMemory == InitApp /\ [][NextMemory]_vars

(***************************************************************************)
(* What the claims are stated in: the history of the observed keys.        *)
(***************************************************************************)
\* The instants of the clock.  Every timestamp is one of them, and the window
\* ending at any other instant holds no more timestamps than the window ending
\* at the clock instant just before it.
Instants == {n * TickMs : n \in 0..MaxTicks}

\* The positions of key k's admitted timestamps that lie in (t - windowMs, t].
AdmittedIn(k, t) ==
  {i \in 1..Len(admitted[k]) : admitted[k][i] > t - windowMs /\ admitted[k][i] <= t}

\* The admitted timestamps of key k that still count at instant t: a request
\* admitted at s counts while t < s + windowMs.
Surviving(k, t) ==
  {admitted[k][i] : i \in {j \in 1..Len(admitted[k]) : t < admitted[k][j] + windowMs}}

\* How many admitted requests of key k still count at instant t.
CountsAt(k, t) ==
  Cardinality({i \in 1..Len(admitted[k]) : t < admitted[k][i] + windowMs})

\* The least element of a non-empty set of integers.
Oldest(S) == CHOOSE s \in S : \A x \in S : s <= x

\* The call that has just returned is `op` on an observed key.
JustCalled(op, k) == last.op = op /\ last.ip = k

(***************************************************************************)
(* C1  Quota bound.                                                        *)
(***************************************************************************)
\* C1: for every observed key and every instant t, at most maxRequests of the
\* requests admitted for the key and not cleared by reset carry a timestamp
\* in (t - windowMs, t].
C1_QuotaBound ==
  \A k \in Observed : \A t \in Instants :
    Cardinality(AdmittedIn(k, t)) <= maxRequests

\* A key that has used its quota in two different windows and is being
\* rejected in the second.
C1_Witness ==
  \E k \in Observed :
    /\ JustCalled("isAllowed", k)
    /\ ~last.result.allowed
    /\ Len(admitted[k]) > maxRequests
    /\ Cardinality(AdmittedIn(k, now)) = maxRequests

(***************************************************************************)
(* C2  Per-key atomicity under concurrent request handlers.                *)
(***************************************************************************)
\* The lines of isAllowed and reset.
InCall == {"L18", "L22", "L23", "L26", "L29", "L32", "L35", "L41", "L61"}

\* C2: with several requests in flight, (1) at most one handler is inside
\* isAllowed or reset at a time; (2) every isAllowed call has returned what it
\* returns when the calls are run one at a time in the order in which they
\* completed, and between calls the Map is the Map that run leaves; (3) a
\* key that has an entry had it created exactly once since it last had none;
\* (4) no window holds more than maxRequests admitted requests of a key.
C2_PerKeyAtomicity ==
  /\ Cardinality({h \in Handlers : pc[h] \in InCall}) <= 1
  /\ \A h \in Handlers :
       pc[h] \in {"route", "rejected"} => loc[h].result = loc[h].serialResult
  /\ (\A h \in Handlers : pc[h] \notin InCall) => requests = serial
  /\ \A k \in Keys : histories[k] = IF MapHas(requests, k) THEN 1 ELSE 0
  /\ \A k \in Observed : \A t \in Instants :
       Cardinality(AdmittedIn(k, t)) <= maxRequests

\* Three requests of one new key arrived at the same instant; with quota 2
\* the first two are in their route handlers and the third has been rejected,
\* all three still in flight.
C2_Witness ==
  /\ maxRequests = 2
  /\ \A h \in Handlers : h <= 3 => loc[h].kind = "request" /\ loc[h].ip = "A"
  /\ pc[1] = "route" /\ pc[2] = "route" /\ pc[3] = "rejected"
  /\ loc[1].now = loc[3].now
  /\ histories["A"] = 1

(***************************************************************************)
(* C3  Independence of keys.                                               *)
(***************************************************************************)
\* C3: a call on one key leaves every other key's entry in the Map as it was
\* (present or absent, and with the same timestamps), and so leaves unchanged
\* what isAllowed and getStats would return for that other key.
C3_Independence ==
  [][\A a \in Keys :
       (last'.op # "none" /\ last'.ip # a) =>
          /\ MapHas(requests', a) <=> MapHas(requests, a)
          /\ MapHas(requests, a) => requests'[a] = requests[a]
          /\ IsAllowedCall(requests', a, now').result
               = IsAllowedCall(requests, a, now).result
          /\ GetStatsCall(requests', a, now') = GetStatsCall(requests, a, now)]_vars

\* Key B has just been reset while key A holds a full history.
C3_Witness ==
  /\ JustCalled("reset", "B")
  /\ MapHas(requests, "A")
  /\ Len(requests["A"]) = maxRequests
  /\ maxRequests > 1

(***************************************************************************)
(* C4  Reset restores the full quota.                                      *)
(***************************************************************************)
\* C4: after reset(key), whatever the key's history was, each of the next
\* maxRequests isAllowed calls for the key is admitted.
C4_ResetRestoresQuota ==
  \A k \in Observed :
    (/\ JustCalled("isAllowed", k)
     /\ burst[k].origin # "new"
     /\ burst[k].calls \in 1..maxRequests) => last.result.allowed

\* A key that was being rejected when it was reset has had maxRequests calls
\* admitted since.
C4_Witness ==
  \E k \in Observed :
    /\ JustCalled("isAllowed", k)
    /\ burst[k].origin = "resetBlocked"
    /\ burst[k].calls = maxRequests
    /\ maxRequests > 1
    /\ last.result.allowed

(***************************************************************************)
(* C5  getStats is read-only.                                              *)
(***************************************************************************)
\* C5: a getStats call leaves the Map as it was (no timestamp added or
\* removed, no entry created), so what isAllowed returns for any key at that
\* instant is the same after the call as before it.
C5_StatsReadOnly ==
  [][last'.op = "getStats" =>
       /\ requests' = requests
       /\ \A k \in Keys : IsAllowedCall(requests', k, now').result
                            = IsAllowedCall(requests, k, now).result]_vars

\* getStats has just returned for a key whose stored history holds an expired
\* timestamp, which getStats filtered out of its answer and left in the Map.
C5_Witness ==
  \E k \in Keys :
    /\ JustCalled("getStats", k)
    /\ MapHas(requests, k)
    /\ \E i \in 1..Len(requests[k]) : ~InWindow(requests[k][i], now - windowMs)
    /\ last.result.requestCount < Len(requests[k])

(***************************************************************************)
(* C6  Monotonic remaining.                                                *)
(***************************************************************************)
\* No timestamp of key k that counted at the key's latest admitted call has
\* expired by instant t.
NoExpirySinceLastAdmit(k, t) ==
  \A i \in 1..Len(admitted[k]) :
    admitted[k][i] > admitted[k][Len(admitted[k])] - windowMs
      => admitted[k][i] > t - windowMs

\* C6: when isAllowed admits a request of a key that has an earlier admitted
\* request since its last reset, and no timestamp has expired since that
\* earlier call, the remaining it returns is that call's remaining minus 1,
\* and is not negative.
C6_MonotonicRemaining ==
  [][\A k \in Observed :
       (/\ last'.op = "isAllowed" /\ last'.ip = k
        /\ admitted'[k] = Append(admitted[k], now)
        /\ prevRemaining[k] # -1
        /\ NoExpirySinceLastAdmit(k, now)) =>
          /\ last'.result.remaining = prevRemaining[k] - 1
          /\ last'.result.remaining >= 0]_vars

\* The second admitted call of a window, made at a later instant than the
\* first, has returned remaining 0 after the first returned 1.
C6_Witness ==
  \E k \in Observed :
    /\ JustCalled("isAllowed", k)
    /\ last.result.allowed
    /\ last.result.remaining = 0
    /\ Len(admitted[k]) = 2
    /\ admitted[k][1] < admitted[k][2]
    /\ CountsAt(k, now) = 2

(***************************************************************************)
(* C7  Burst on a fresh key.                                               *)
(***************************************************************************)
\* C7: of the isAllowed calls made on a key since it last had no entry, all
\* within the window opened by the first of them at t1, call number n is
\* admitted with remaining maxRequests - n when n <= maxRequests, and is
\* rejected with remaining 0 and resetTime t1 + windowMs when n > maxRequests.
C7_Burst ==
  \A k \in Observed :
    (JustCalled("isAllowed", k) /\ last.now < burst[k].t1 + windowMs) =>
       IF burst[k].calls <= maxRequests
         THEN /\ last.result.allowed
              /\ last.result.remaining = maxRequests - burst[k].calls
         ELSE /\ ~last.result.allowed
              /\ last.result.remaining = 0
              /\ last.result.resetTime = burst[k].t1 + windowMs

\* A call beyond the quota, made later in the window than the first call,
\* has been rejected.
C7_Witness ==
  \E k \in Observed :
    /\ JustCalled("isAllowed", k)
    /\ burst[k].calls > maxRequests
    /\ maxRequests > 1
    /\ last.now > burst[k].t1
    /\ last.now < burst[k].t1 + windowMs
    /\ ~last.result.allowed

(***************************************************************************)
(* C8  The result of a rejection.                                          *)
(***************************************************************************)
\* The whole number of seconds n with n - 1 < x / 1000 <= n, for x >= 0.
CeilSeconds(x) ==
  CHOOSE n \in 0..((x \div 1000) + 1) : (n - 1) * 1000 < x /\ x <= n * 1000

\* C8: a rejected isAllowed call returns remaining 0, a resetTime that is the
\* oldest timestamp of the key still counting plus windowMs, and retryAfter =
\* ceil((resetTime - now) / 1000); an admitted call returns retryAfter 0.
C8_RejectionResult ==
  last.op = "isAllowed" =>
    IF last.result.allowed
      THEN last.result.retryAfter = 0
      ELSE /\ last.result.remaining = 0
           /\ last.result.resetTime >= last.now
           /\ last.result.retryAfter = CeilSeconds(last.result.resetTime - last.now)
           /\ last.ip \in Observed =>
                /\ Surviving(last.ip, last.now) # {}
                /\ last.result.resetTime
                     = Oldest(Surviving(last.ip, last.now)) + windowMs

\* Quota 2, window 5000 ms: calls at 0 and 1000 admitted, the call at 2000
\* rejected with retryAfter 3.
C8_Witness ==
  \E k \in Observed :
    /\ maxRequests = 2 /\ windowMs = 5000
    /\ admitted[k] = <<0, 1000>>
    /\ JustCalled("isAllowed", k)
    /\ last.now = 2000
    /\ ~last.result.allowed
    /\ last.result.resetTime = 5000
    /\ last.result.retryAfter = 3

(***************************************************************************)
(* C9  The window is half-open.                                            *)
(***************************************************************************)
\* C9: a request admitted at s counts against the quota in every isAllowed
\* and getStats call made at now < s + windowMs, and in none made at
\* now >= s + windowMs: getStats reports exactly the requests that count,
\* and isAllowed admits exactly when fewer than maxRequests earlier requests
\* count.
C9_HalfOpenWindow ==
  \A k \in Observed :
    /\ JustCalled("getStats", k) => last.result.requestCount = CountsAt(k, last.now)
    /\ JustCalled("isAllowed", k) =>
         IF last.result.allowed
           THEN /\ CountsAt(k, last.now) - 1 < maxRequests
                /\ last.result.remaining = maxRequests - CountsAt(k, last.now)
           ELSE CountsAt(k, last.now) >= maxRequests

\* With quota 1, a request has been admitted at exactly s + windowMs, where s
\* is the timestamp of the request that held the only slot.
C9_Witness ==
  \E k \in Observed :
    /\ maxRequests = 1
    /\ JustCalled("isAllowed", k)
    /\ last.result.allowed
    /\ Len(admitted[k]) = 2
    /\ admitted[k][1] + windowMs = last.now

(***************************************************************************)
(* C10  The resetTime formula.                                             *)
(***************************************************************************)
\* C10: isAllowed and getStats return resetTime = the oldest timestamp of the
\* key that still counts (the request just admitted included) + windowMs, and
\* now + windowMs when none counts.
C10_ResetTime ==
  \A k \in Observed :
    (JustCalled("isAllowed", k) \/ JustCalled("getStats", k)) =>
       last.result.resetTime =
         IF Surviving(k, last.now) # {}
           THEN Oldest(Surviving(k, last.now)) + windowMs
           ELSE last.now + windowMs

\* An admitted call whose resetTime comes from a timestamp that is neither
\* the key's first admitted one (expired) nor the one just admitted.
C10_Witness ==
  \E k \in Observed :
    /\ JustCalled("isAllowed", k)
    /\ last.result.allowed
    /\ Len(admitted[k]) >= 3
    /\ last.result.resetTime > admitted[k][1] + windowMs
    /\ last.result.resetTime < last.now + windowMs

(***************************************************************************)
(* C11  The values getStats returns.                                       *)
(***************************************************************************)
\* C11: getStats(key) at time now returns requestCount = the number of the
\* key's admitted, not-reset timestamps in (now - windowMs, now] and
\* remaining = maxRequests - requestCount, which is not negative; for a key
\* with no entry it returns requestCount 0, remaining maxRequests and
\* resetTime now + windowMs.
C11_StatsValues ==
  /\ \A k \in Observed :
       JustCalled("getStats", k) =>
         /\ last.result.requestCount = Cardinality(AdmittedIn(k, last.now))
         /\ last.result.remaining = maxRequests - last.result.requestCount
         /\ last.result.remaining >= 0
  /\ (last.op = "getStats" /\ ~MapHas(requests, last.ip)) =>
       /\ last.result.requestCount = 0
       /\ last.result.remaining = maxRequests
       /\ last.result.resetTime = last.now + windowMs

\* getStats has reported one request in the window and one remaining for a
\* key that has had three requests admitted, two of them expired since.
C11_Witness ==
  \E k \in Observed :
    /\ JustCalled("getStats", k)
    /\ maxRequests = 2
    /\ Len(admitted[k]) = 3
    /\ last.result.requestCount = 1
    /\ last.result.remaining = 1

(***************************************************************************)
(* C12  Eviction of idle entries.                                          *)
(***************************************************************************)
\* The eviction horizon: one window, the least the design recommends.
EvictionHorizon == windowMs

\* Key k has an entry that holds no timestamp inside the window and that no
\* request has referred to for longer than the eviction horizon.
IdleEmpty(k) ==
  /\ MapHas(requests, k)
  /\ FilterWindow(requests[k], now - windowMs) = << >>
  /\ lastActivity[k] # -1
  /\ lastActivity[k] + EvictionHorizon < now

\* C12: an entry whose history is empty and which has been idle for longer
\* than the eviction horizon is eventually removed from the Map.
C12_IdleEntryEvicted ==
  \A k \in Observed : IdleEmpty(k) ~> ~MapHas(requests, k)

C14_InvalidConfigFails ==
  last.op = "isAllowed" => (maxRequests > 0 /\ windowMs > 0)

(***************************************************************************)
(* C15  Removal transparency.                                              *)
(***************************************************************************)
\* C15: once a key's entry has been removed, every later isAllowed and
\* getStats call on the key returns what the same call, at the same time,
\* returns on a limiter that had never seen the key before the removal
\* (shadow[k] is that limiter's Map, taken through the same isAllowed calls);
\* the first isAllowed after the removal is admitted with
\* remaining = maxRequests - 1 and resetTime = now + windowMs.
C15_RemovalTransparency ==
  [][\A k \in Observed :
       burst[k].origin # "new" =>
         /\ (last'.op = "isAllowed" /\ last'.ip = k) =>
              /\ last'.result = IsAllowedCall(shadow[k], k, now).result
              /\ burst[k].calls = 0 =>
                   /\ last'.result.allowed
                   /\ last'.result.remaining = maxRequests - 1
                   /\ last'.result.resetTime = now + windowMs
         /\ (last'.op = "getStats" /\ last'.ip = k) =>
              last'.result = GetStatsCall(shadow[k], k, now)]_vars

\* A key was removed while its quota was used up and its timestamps had the
\* whole run left to live; one request has been made since and getStats has
\* just counted that one alone.
C15_Witness ==
  \E k \in Observed :
    /\ JustCalled("getStats", k)
    /\ burst[k].origin = "resetBlocked"
    /\ burst[k].calls = 1
    /\ maxRequests = 2
    /\ windowMs > MaxTicks * TickMs
    /\ last.result.requestCount = 1
    /\ last.result.remaining = 1

(***************************************************************************)
(* C16  Sorted history.                                                    *)
(***************************************************************************)
\* C16: every stored timestamp array is in ascending order, so its first
\* element is its oldest timestamp, the one resetTime is computed from.
C16_SortedHistory ==
  \A k \in Keys :
    MapHas(requests, k) =>
      /\ \A i, j \in 1..Len(requests[k]) :
           i < j => requests[k][i] <= requests[k][j]
      /\ \A i \in 1..Len(requests[k]) : requests[k][1] <= requests[k][i]

\* A key holds two timestamps taken at different instants.
C16_Witness ==
  \E k \in Keys :
    /\ MapHas(requests, k)
    /\ Len(requests[k]) = 2
    /\ requests[k][1] < requests[k][2]

(***************************************************************************)
(* C17  Order and equality of the stored timestamps.                       *)
(***************************************************************************)
\* C17 as stated: every stored timestamp array is strictly increasing, no
\* two entries of one key being equal, also when several requests of the key
\* arrive at the same instant.
C17_StrictlyIncreasing ==
  \A k \in Keys :
    MapHas(requests, k) =>
      \A i, j \in 1..Len(requests[k]) :
        i < j => requests[k][i] < requests[k][j]

\* The last n entries of a sequence.
Newest(s, n) == SubSeq(s, Len(s) - n + 1, Len(s))

\* C17 as amended: every stored timestamp array holds one entry per admitted
\* request, the instant of its admission, in order of admission; entries
\* never decrease, and two entries are equal exactly when two requests of
\* the key were admitted at the same instant.
C17_OneEntryPerAdmission ==
  \A k \in Observed :
    MapHas(requests, k) =>
      /\ Len(requests[k]) <= Len(admitted[k])
      /\ requests[k] = Newest(admitted[k], Len(requests[k]))
      /\ \A i \in 1..(Len(requests[k]) - 1) : requests[k][i + 1] >= requests[k][i]

\* Two requests of a key were admitted at the same instant and the key's
\* array holds that instant twice.
C17_Witness ==
  \E k \in Observed :
    /\ MapHas(requests, k)
    /\ Len(requests[k]) = 2
    /\ requests[k][1] = requests[k][2]
    /\ Len(admitted[k]) >= 2

(***************************************************************************)
(* C18  No coalescing of same-instant requests.                            *)
(***************************************************************************)
\* The smaller of two numbers.
Least(a, b) == IF a <= b THEN a ELSE b

\* C18: when all the isAllowed calls made on a key since it last had no
\* entry were made at one instant, n of them so far, the key's array holds
\* min(n, maxRequests) entries, all equal to that instant, exactly that many
\* of the calls were admitted, and call number n was admitted exactly when
\* n <= maxRequests.
C18_NoCoalescing ==
  \A k \in Observed :
    (JustCalled("isAllowed", k) /\ burst[k].t1 = last.now) =>
       /\ MapHas(requests, k)
       /\ Len(requests[k]) = Least(burst[k].calls, maxRequests)
       /\ \A i \in 1..Len(requests[k]) : requests[k][i] = last.now
       /\ Len(admitted[k]) = Least(burst[k].calls, maxRequests)
       /\ last.result.allowed <=> burst[k].calls <= maxRequests

\* Three calls at one instant on a key without entry, quota 2: two equal
\* entries are stored and the third call has been rejected.
C18_Witness ==
  \E k \in Observed :
    /\ JustCalled("isAllowed", k)
    /\ maxRequests = 2
    /\ burst[k].calls = 3
    /\ burst[k].t1 = last.now
    /\ requests[k] = <<last.now, last.now>>
    /\ ~last.result.allowed

(***************************************************************************)
(* C19  Rate-limited requests do nothing.                                  *)
(***************************************************************************)
\* C19: on every route, (1) the request's middleware makes one isAllowed
\* call for the client's key and the request is rejected exactly when that
\* call returned allowed = false; (2) a rejected request is answered with
\* 429 at once and never makes a storage call; (3) a request that has made a
\* storage call was allowed; (4) the URL collection changes only in a
\* storage call of a request that was allowed.
C19_RejectedDoNothing ==
  [][/\ \A h \in Requests :
          (rq[h].pc = "idle" /\ rq'[h].pc # "idle") =>
             \E ip \in Keys :
               /\ requests' = IsAllowedCall(requests, ip, now).requests
               /\ rq'[h].allowed = IsAllowedCall(requests, ip, now).result.allowed
     /\ \A h \in Requests :
          (rq'[h].pc # "idle" /\ ~rq'[h].allowed) =>
             /\ rq'[h].pc = "done"
             /\ rq'[h].status = 429
             /\ ~rq'[h].storage
     /\ \A h \in Requests : rq'[h].storage => rq'[h].allowed
     /\ \A h \in Requests : rq'[h].status = 429 => ~rq'[h].allowed
     /\ db' # db =>
          \E h \in Requests :
            /\ rq[h].allowed
            /\ rq[h].pc \notin {"idle", "done"}
            /\ rq'[h].storage
            /\ rq'[h] # rq[h]]_vars

\* One request has stored a URL and a later request of the same client has
\* been rejected with 429 without touching the storage.
C19_Witness ==
  \E h1, h2 \in Requests :
    /\ h1 < h2
    /\ rq[h1].status = 201 /\ rq[h1].storage
    /\ rq[h2].status = 429 /\ ~rq[h2].allowed /\ ~rq[h2].storage
    /\ db # << >>

(***************************************************************************)
(* C20  Alias uniqueness.                                                  *)
(***************************************************************************)
\* C20: (1) a shorten request whose customAlias is in use when the request
\* comes to check or to store it is refused with 409; (2) a shorten request
\* is answered 201 for a short ID only if no document held that ID, so that
\* of the requests racing for one ID at most one succeeds; (3) no step
\* changes the longUrl stored for a short ID that stays in the collection.
C20_AliasUniqueness ==
  [][/\ \A h \in Requests :
          (/\ rq[h].pc \in {"exists", "save"}
           /\ rq[h].customAlias # "none"
           /\ rq'[h] # rq[h]
           /\ StorageExists(db, rq[h].customAlias)) => rq'[h].status = 409
     /\ \A h \in Requests :
          (rq[h].pc = "save" /\ rq'[h].status = 201) =>
             /\ ~StorageExists(db, rq[h].shortId)
             /\ StorageExists(db', rq[h].shortId)
             /\ db'[rq[h].shortId].longUrl = rq[h].longUrl
     /\ \A id \in DOMAIN db :
          id \in DOMAIN db' => db'[id].longUrl = db[id].longUrl]_vars

C22_AutomaticCleanup ==
  \A k \in Keys :
    JustCalled("isAllowed", k) =>
      /\ MapHas(requests, k)
      /\ \A i \in 1..Len(requests[k]) :
           /\ requests[k][i] > last.now - windowMs
           /\ requests[k][i] <= last.now

\* A key whose whole quota had expired has just been checked again: both old
\* timestamps are gone and the array holds the new one alone.
C22_Witness ==
  \E k \in Observed :
    /\ JustCalled("isAllowed", k)
    /\ maxRequests = 2
    /\ Len(admitted[k]) = 3
    /\ admitted[k][2] <= last.now - windowMs
    /\ requests[k] = <<last.now>>

(***************************************************************************)
(* C23  Bounded per-key history.                                           *)
(***************************************************************************)
\* C23: with maxRequests >= 0, whatever values the clock takes between
\* calls, earlier ones included, every stored timestamp array has at most
\* maxRequests entries.
C23_BoundedHistory ==
  \A k \in Keys :
    MapHas(requests, k) => Len(requests[k]) <= maxRequests

\* The clock has gone back: a key holding its full quota of timestamps, all
\* later than now, has just been rejected.
C23_Witness ==
  \E k \in Keys :
    /\ JustCalled("isAllowed", k)
    /\ ~last.result.allowed
    /\ maxRequests = 2
    /\ Len(requests[k]) = maxRequests
    /\ \A i \in 1..Len(requests[k]) : requests[k][i] > now

(***************************************************************************)
(* C24  The retry hint of a rejection.                                     *)
(***************************************************************************)
\* C24: with windowMs > 0 and a clock that does not go back, (1) a rejected
\* isAllowed call returns resetTime > now and retryAfter >= 1; (2) when the
\* latest call was a rejected isAllowed of a key and the next call is an
\* isAllowed of the same key at or after the resetTime that rejection
\* returned, it is admitted.
C24_UsefulRetryHint ==
  [][/\ (last'.op = "isAllowed" /\ ~last'.result.allowed) =>
          /\ last'.result.resetTime > last'.now
          /\ last'.result.retryAfter >= 1
     /\ (/\ last.op = "isAllowed" /\ ~last.result.allowed
         /\ last'.op = "isAllowed" /\ last'.ip = last.ip
         /\ last'.now >= last.result.resetTime) => last'.result.allowed]_vars

\* One step of a generateUnique loop of request h: candidates tried so far
\* are attempt + 1, the lookups that answered true are at most maxHits, a
\* step that stays in the loop moves to the next candidate, a return hands
\* out the candidate storage.exists has just denied, and the only other exit
\* is the throw, taken once attempt has reached the limit.
GenerateUniqueStep(h, maxHits) ==
  /\ rq'[h].attempt <= AttemptLimit
  /\ rq'[h].hits <= maxHits
  /\ (rq[h].pc = "generateUnique" /\ rq'[h] # rq[h]) =>
        \/ /\ rq'[h].pc = "generateUnique"
           /\ rq'[h].attempt = rq[h].attempt + 1
           /\ StorageExists(db, rq[h].shortId)
        \/ /\ rq'[h].pc = "save"
           /\ rq'[h].shortId = rq[h].shortId
           /\ ~StorageExists(db, rq'[h].shortId)
        \/ /\ rq'[h].pc = "done"
           /\ rq'[h].status = 500
           /\ rq[h].attempt >= AttemptLimit

\* C25 as stated: generateUnique stops after at most AttemptLimit + 1
\* candidates and at most AttemptLimit lookups that answered true; it returns
\* a candidate the storage denied when it was looked up, or throws.
C25_AtMostLimitPositiveChecks ==
  [][\A h \in Requests : GenerateUniqueStep(h, AttemptLimit)]_vars

\* C25 amended: generateUnique stops after at most AttemptLimit + 1
\* candidates and at most AttemptLimit + 1 lookups that answered true (the
\* candidate of the last attempt is looked up before the limit is tested);
\* it returns a candidate the storage denied when it was looked up, or
\* throws, and never returns an ID the storage reported as existing.
C25_CollisionRetryLoop ==
  [][\A h \in Requests : GenerateUniqueStep(h, AttemptLimit + 1)]_vars

\* A loop that found every candidate taken, the last one included, and threw.
C25_Witness ==
  \E h \in Requests :
    /\ rq[h].pc = "done" /\ rq[h].status = 500
    /\ rq[h].hits = AttemptLimit + 1

\* The two Maps of the in-memory store hold the same keys, and the long URL
\* kept under a key is the one in the key's URL object.
StoreConsistent ==
  /\ DOMAIN urls = DOMAIN shortToLong
  /\ \A k \in DOMAIN urls : shortToLong[k] = urls[k].longUrl

\* exists, get and getLongUrl give the same answer on whether a key is stored.
LookupsAgree(k) ==
  /\ URLStorageExists(k) = (URLStorageGet(k) # Null)
  /\ URLStorageExists(k) = (URLStorageGetLongUrl(k) # Null)

\* C26: after any sequence of save, delete and incrementClicks calls on the
\* in-memory store, urls and shortToLong have the same key set and
\* shortToLong[k] is urls[k].longUrl; exists(k), get(k) != null and
\* getLongUrl(k) != null agree for every key not stored with an empty long
\* URL; and delete(k) returns true exactly when k was stored.
C26_StoreConsistency ==
  [][/\ StoreConsistent /\ StoreConsistent'
     /\ \A k \in MemoryKeys :
          (MapHas(urls', k) => urls'[k].longUrl # "") => LookupsAgree(k)'
     /\ returned'.op = "delete" =>
          /\ returned'.value = MapHas(urls, returned'.key)
          /\ ~MapHas(urls', returned'.key)
          /\ ~MapHas(shortToLong', returned'.key)]_vars

\* delete has just removed a stored alias and said so, while a generated ID
\* that has been clicked stays stored.
C26_Witness ==
  /\ returned = [op |-> "delete", key |-> "abc", value |-> TRUE]
  /\ MapHas(urls, "g1") /\ urls["g1"].clicks > 0 /\ urls["g1"].longUrl # ""

====
